---- MODULE Spec2Model ----
(***************************************************************************)
(* Model of the task list application of src/src/App.tsx: the React        *)
(* component App, its state (todos, inputValue, filter), its handlers, the *)
(* persistence effect and the localStorage slot 'todos'.                   *)
(*                                                                         *)
(* A string is a sequence of UTF-16 code units, so that trim,              *)
(* JSON.stringify and JSON.parse are computed character by character.  A   *)
(* code unit is written as a TLA+ string: the printable ASCII characters   *)
(* and "\t", "\n", "\f", "\r" stand for themselves, every other code unit  *)
(* is written "U+" with its four upper-case hexadecimal digits ("U+00A0"   *)
(* is the no-break space, "U+0008" the backspace), and so is the grave     *)
(* accent, "U+0060", which a TLA+ string cannot hold.                      *)
(*                                                                         *)
(* A JavaScript value is a record tagged with its kind:                    *)
(*   [kind |-> "undefined"]            [kind |-> "null"]                   *)
(*   [kind |-> "boolean", bool |-> b]  [kind |-> "string", str |-> chars]  *)
(*   [kind |-> "number", num |-> chars]   chars being String(value)        *)
(*   [kind |-> "array", items |-> values]                                  *)
(*   [kind |-> "object", members |-> <<[key |-> chars, val |-> value]>>]   *)
(* the members of an object standing in its own-property order.            *)
(***************************************************************************)
EXTENDS Integers, Sequences, FiniteSets

VARIABLES
    todos,       \* useState<Todo[]>: the committed state, a JavaScript value
    inputValue,  \* useState(''): the text of the input field
    filter,      \* useState<FilterType>('all')
    storage,     \* localStorage slot 'todos': [present, value]
    pc,          \* "effect": the persistence effect of the last commit is
                 \* pending; "idle": the event loop is free; "crashed": the
                 \* mount threw and nothing is rendered; "closed": not
                 \* started yet
    issued,      \* history: the ids given to tasks so far
    now,         \* the clock read by Date.now()
    lastOp,      \* history: the last handler that ran, with its argument
    leaving,     \* the todo.id of the rows AnimatePresence still shows
                 \* after they left filteredTodos (their exit runs)
    other        \* a second instance of the application on the same
                 \* store (another tab): [todos, inputValue, filter, pc,
                 \* leaving]

vars ==
    <<todos, inputValue, filter, storage, pc, issued, now, lastOp, leaving,
      other>>

-----------------------------------------------------------------------------
(* Bounds.                                                                 *)

\* number of tasks that are created in one behaviour
MaxAdds == 2
\* number of tasks that are created in one behaviour of two instances
MaxAddsTwo == 1
\* the value of Date.now() when the application is first opened
StartTime == 9

-----------------------------------------------------------------------------
(* Characters and strings.                                                 *)

Digits == <<"0", "1", "2", "3", "4", "5", "6", "7", "8", "9">>

IsDigit(c) == \E k \in 1..10 : Digits[k] = c

DigitValue(c) == (CHOOSE k \in 1..10 : Digits[k] = c) - 1

HexLower ==
    <<"0", "1", "2", "3", "4", "5", "6", "7", "8", "9",
      "a", "b", "c", "d", "e", "f">>

HexUpper ==
    <<"0", "1", "2", "3", "4", "5", "6", "7", "8", "9",
      "A", "B", "C", "D", "E", "F">>

IsHexDigit(c) == \E k \in 1..16 : HexLower[k] = c \/ HexUpper[k] = c

HexDigitValue(c) ==
    (CHOOSE k \in 1..16 : HexLower[k] = c \/ HexUpper[k] = c) - 1

\* the code units U+0020 to U+007E
Ascii ==
    <<" ", "!", "\"", "#", "$", "%", "&", "'", "(", ")", "*", "+", ",",
      "-", ".", "/", "0", "1", "2", "3", "4", "5", "6", "7", "8", "9", ":",
      ";", "<", "=", ">", "?", "@", "A", "B", "C", "D", "E", "F", "G", "H",
      "I", "J", "K", "L", "M", "N", "O", "P", "Q", "R", "S", "T", "U", "V",
      "W", "X", "Y", "Z", "[", "\\", "]", "^", "_", "U+0060", "a", "b",
      "c", "d", "e", "f", "g", "h", "i", "j", "k", "l", "m", "n", "o", "p",
      "q", "r", "s", "t", "u", "v", "w", "x", "y", "z", "{", "|", "}",
      "~">>

\* the code unit of code n, 0 <= n <= 65535
FromCharCode(n) ==
    IF n >= 32 /\ n <= 126 THEN Ascii[n - 31]
    ELSE IF n = 9 THEN "\t"
    ELSE IF n = 10 THEN "\n"
    ELSE IF n = 12 THEN "\f"
    ELSE IF n = 13 THEN "\r"
    ELSE "U+" \o HexUpper[(n \div 4096) + 1]
              \o HexUpper[((n \div 256) % 16) + 1]
              \o HexUpper[((n \div 16) % 16) + 1]
              \o HexUpper[(n % 16) + 1]

\* U+0000 to U+001F
ControlChars == {FromCharCode(n) : n \in 0..31}

\* U+D800 to U+DBFF
HighSurrogates == {FromCharCode(n) : n \in 55296..56319}

\* U+DC00 to U+DFFF
LowSurrogates == {FromCharCode(n) : n \in 56320..57343}

Surrogates == HighSurrogates \cup LowSurrogates

\* the code of a code unit that is known to lie in the range lo..hi
CharCodeIn(c, lo, hi) == CHOOSE n \in lo..hi : FromCharCode(n) = c

\* WhiteSpace and LineTerminator of ECMAScript: tab, LF, VT, FF, CR, space,
\* no-break space, U+1680, U+2000 to U+200A, U+2028, U+2029, U+202F, U+205F,
\* U+3000, U+FEFF
TrimWhitespace ==
    {FromCharCode(n) :
        n \in (9..13) \cup {32, 160, 5760} \cup (8192..8202)
              \cup {8232, 8233, 8239, 8287, 12288, 65279}}

\* String.prototype.trim strips these from both ends
IsWhitespace(c) == c \in TrimWhitespace

\* the whitespace of the JSON grammar: tab, LF, CR, space
IsJSONWhitespace(c) == c \in {"\t", "\n", "\r", " "}

RECURSIVE TrimStart(_)
TrimStart(s) ==
    IF s # <<>> /\ IsWhitespace(Head(s)) THEN TrimStart(Tail(s)) ELSE s

RECURSIVE TrimEnd(_)
TrimEnd(s) ==
    IF s # <<>> /\ IsWhitespace(s[Len(s)])
    THEN TrimEnd(SubSeq(s, 1, Len(s) - 1))
    ELSE s

Trim(s) == TrimEnd(TrimStart(s))

\* the values the user can give the input field: empty; blank (a space and
\* a tab); text with a leading tab, an inner space and a trailing no-break
\* space; text with the characters JSON escapes (quote, tab, backslash)
InputValues ==
    { <<>>,
      <<" ", "\t">>,
      <<"\t", "a", " ", "b", "U+00A0">>,
      <<"\"", "\t", "\\">> }

\* two of the values crypto.randomUUID() can return, each abstracted to a
\* one-character string: a draw can differ from an earlier one or repeat it
UUIDs == {<<"1">>, <<"2">>}

FilterTypes == {"all", "pending", "completed"}

-----------------------------------------------------------------------------
(* JavaScript values and the operations the component applies to them.     *)

JsUndefined == [kind |-> "undefined"]

JsNull == [kind |-> "null"]

JsBoolean(b) == [kind |-> "boolean", bool |-> b]

JsString(s) == [kind |-> "string", str |-> s]

\* a number, given as the characters String(value) returns
JsNumber(chars) == [kind |-> "number", num |-> chars]

JsArray(items) == [kind |-> "array", items |-> items]

JsObject(members) == [kind |-> "object", members |-> members]

KeyId == <<"i", "d">>
KeyText == <<"t", "e", "x", "t">>
KeyCompleted == <<"c", "o", "m", "p", "l", "e", "t", "e", "d">>
KeyCreatedAt == <<"c", "r", "e", "a", "t", "e", "d", "A", "t">>

\* whether the digit string a is the smaller number (no leading zeros)
DigitsLess(a, b) ==
    \/ Len(a) < Len(b)
    \/ /\ Len(a) = Len(b)
       /\ \E k \in 1..Len(a) :
             /\ DigitValue(a[k]) < DigitValue(b[k])
             /\ \A j \in 1..(k - 1) : a[j] = b[j]

\* an array index: the canonical decimal form of an integer below 2^32 - 1;
\* such property names come first, in ascending order, among the own
\* properties of an object
IsArrayIndex(key) ==
    /\ key # <<>>
    /\ \A k \in 1..Len(key) : IsDigit(key[k])
    /\ (Len(key) = 1 \/ key[1] # "0")
    /\ DigitsLess(key, <<"4", "2", "9", "4", "9", "6", "7", "2", "9", "5">>)

HasProperty(members, key) == \E k \in 1..Len(members) : members[k].key = key

\* CreateDataProperty: an existing property keeps its place and takes the
\* value; a new array index goes among the indices, any other new name last
SetProperty(members, key, val) ==
    IF HasProperty(members, key)
    THEN [k \in 1..Len(members) |->
             IF members[k].key = key
             THEN [key |-> key, val |-> val]
             ELSE members[k]]
    ELSE IF IsArrayIndex(key)
    THEN LET before ==
                 Cardinality({k \in 1..Len(members) :
                                 /\ IsArrayIndex(members[k].key)
                                 /\ DigitsLess(members[k].key, key)})
         IN  SubSeq(members, 1, before)
             \o <<[key |-> key, val |-> val]>>
             \o SubSeq(members, before + 1, Len(members))
    ELSE Append(members, [key |-> key, val |-> val])

\* v.key for a value v that is neither null nor undefined (on those the
\* read throws TypeError): the own property of an object; undefined on a
\* number, a string, a boolean or an array, none of which has a property
\* named id, text or completed
Get(v, key) ==
    IF v.kind = "object" /\ HasProperty(v.members, key)
    THEN v.members[CHOOSE k \in 1..Len(v.members) : v.members[k].key = key].val
    ELSE JsUndefined

\* ToBoolean: undefined, null, false, 0 and the empty string are falsy
Truthy(v) ==
    IF v.kind \in {"undefined", "null"} THEN FALSE
    ELSE IF v.kind = "boolean" THEN v.bool
    ELSE IF v.kind = "number" THEN v.num # <<"0">>
    ELSE IF v.kind = "string" THEN v.str # <<>>
    ELSE TRUE

\* a === b.  An object or an array is equal to itself only.  The objects
\* compared here are ids of tasks, each marked with the place JSON.parse
\* created it at (ref, see Load): equal values are the same object.
StrictEquals(a, b) ==
    /\ a.kind = b.kind
    /\ IF a.kind = "boolean" THEN a.bool = b.bool
       ELSE IF a.kind = "number" THEN a.num = b.num
       ELSE IF a.kind = "string" THEN a.str = b.str
       ELSE IF a.kind \in {"object", "array"} THEN a = b
       ELSE TRUE

-----------------------------------------------------------------------------
(* JSON.stringify.                                                         *)

\* String(n) for a non-negative integer n below 10^21
RECURSIVE NumberToString(_)
NumberToString(n) ==
    IF n < 10
    THEN <<Digits[n + 1]>>
    ELSE NumberToString(n \div 10) \o <<Digits[(n % 10) + 1]>>

\* \uXXXX with lower-case hexadecimal digits
UnicodeEscape(n) ==
    <<"\\", "u", HexLower[(n \div 4096) + 1], HexLower[((n \div 256) % 16) + 1],
      HexLower[((n \div 16) % 16) + 1], HexLower[(n % 16) + 1]>>

\* variant: no character is escaped
EscapeNothing(c) == <<c>>

\* QuoteJSONString on one code unit that is not part of a surrogate pair
EscapeChar(c) ==
    IF c = "\"" THEN <<"\\", "\"">>
    ELSE IF c = "\\" THEN <<"\\", "\\">>
    ELSE IF c = "U+0008" THEN <<"\\", "b">>
    ELSE IF c = "\t" THEN <<"\\", "t">>
    ELSE IF c = "\n" THEN <<"\\", "n">>
    ELSE IF c = "\f" THEN <<"\\", "f">>
    ELSE IF c = "\r" THEN <<"\\", "r">>
    ELSE IF c \in ControlChars THEN UnicodeEscape(CharCodeIn(c, 0, 31))
    ELSE IF c \in Surrogates
    THEN UnicodeEscape(CharCodeIn(c, 55296, 57343))
    ELSE <<c>>

\* a high surrogate followed by a low one is a code point and is written as
\* it is; every other code unit goes through EscapeChar
RECURSIVE EscapeChars(_)
EscapeChars(s) ==
    IF s = <<>> THEN <<>>
    ELSE IF Len(s) >= 2 /\ s[1] \in HighSurrogates /\ s[2] \in LowSurrogates
    THEN <<s[1], s[2]>> \o EscapeChars(SubSeq(s, 3, Len(s)))
    ELSE EscapeChar(Head(s)) \o EscapeChars(Tail(s))

QuoteJSONString(s) == <<"\"">> \o EscapeChars(s) \o <<"\"">>

BooleanToString(b) ==
    IF b THEN <<"t", "r", "u", "e">> ELSE <<"f", "a", "l", "s", "e">>

NullText == <<"n", "u", "l", "l">>

InfinityText == <<"I", "n", "f", "i", "n", "i", "t", "y">>

\* a number that is not finite is written null
SerializeNumber(chars) ==
    IF chars \in {InfinityText, <<"-">> \o InfinityText}
    THEN NullText
    ELSE chars

RECURSIVE SerializeValue(_)
RECURSIVE SerializeElements(_)
RECURSIVE SerializeMembers(_)

\* SerializeJSONProperty; undefined as an array element is written null
SerializeValue(v) ==
    IF v.kind = "string" THEN QuoteJSONString(v.str)
    ELSE IF v.kind = "number" THEN SerializeNumber(v.num)
    ELSE IF v.kind = "boolean" THEN BooleanToString(v.bool)
    ELSE IF v.kind = "array"
    THEN <<"[">> \o SerializeElements(v.items) \o <<"]">>
    ELSE IF v.kind = "object"
    THEN <<"{">>
         \o SerializeMembers(SelectSeq(v.members,
                                       LAMBDA m : m.val.kind # "undefined"))
         \o <<"}">>
    ELSE NullText

\* the elements of an array, separated by commas
SerializeElements(arr) ==
    IF arr = <<>> THEN <<>>
    ELSE IF Len(arr) = 1 THEN SerializeValue(arr[1])
    ELSE SerializeValue(arr[1]) \o <<",">> \o SerializeElements(Tail(arr))

\* the own properties of an object in their order; one whose value is
\* undefined has been left out
SerializeMembers(members) ==
    IF members = <<>> THEN <<>>
    ELSE LET m == QuoteJSONString(members[1].key) \o <<":">>
                  \o SerializeValue(members[1].val)
         IN  IF Len(members) = 1 THEN m
             ELSE m \o <<",">> \o SerializeMembers(Tail(members))

\* JSON.stringify(value), as localStorage.setItem then stores it: the result
\* for undefined is undefined, which setItem turns into the text 'undefined'
JSONstringify(v) ==
    IF v.kind = "undefined"
    THEN <<"u", "n", "d", "e", "f", "i", "n", "e", "d">>
    ELSE SerializeValue(v)

-----------------------------------------------------------------------------
(* JSON.parse: a recursive-descent parser.  A parse step returns           *)
(* [ok, val, next], next being the index after the value.                  *)

ParseFail == [ok |-> FALSE, val |-> [kind |-> "none"], next |-> 0]

ParseOk(v, n) == [ok |-> TRUE, val |-> v, next |-> n]

RECURSIVE SkipWhitespace(_, _)
SkipWhitespace(s, i) ==
    IF i <= Len(s) /\ IsJSONWhitespace(s[i])
    THEN SkipWhitespace(s, i + 1)
    ELSE i

\* whether the characters of lit stand in s from index i on
MatchesAt(s, i, lit) ==
    /\ i + Len(lit) - 1 <= Len(s)
    /\ \A k \in 1..Len(lit) : s[i + k - 1] = lit[k]

\* the character a two-character escape sequence stands for
EscapedChar(c) ==
    IF c = "b" THEN "U+0008"
    ELSE IF c = "f" THEN "\f"
    ELSE IF c = "n" THEN "\n"
    ELSE IF c = "r" THEN "\r"
    ELSE IF c = "t" THEN "\t"
    ELSE c

\* the body of a string literal, from index i (after the opening quote):
\* a control character may not stand in it unescaped; the escapes are \" \\
\* \/ \b \f \n \r \t and \u with four hexadecimal digits
RECURSIVE ParseStringBody(_, _, _)
ParseStringBody(s, i, acc) ==
    IF i > Len(s) THEN ParseFail
    ELSE IF s[i] = "\"" THEN ParseOk(JsString(acc), i + 1)
    ELSE IF s[i] \in ControlChars THEN ParseFail
    ELSE IF s[i] = "\\"
    THEN IF i + 1 > Len(s) THEN ParseFail
         ELSE IF s[i + 1] \in {"\"", "\\", "/", "b", "f", "n", "r", "t"}
         THEN ParseStringBody(s, i + 2, Append(acc, EscapedChar(s[i + 1])))
         ELSE IF /\ s[i + 1] = "u"
                 /\ i + 5 <= Len(s)
                 /\ \A k \in 2..5 : IsHexDigit(s[i + k])
         THEN ParseStringBody(s, i + 6,
                  Append(acc, FromCharCode(4096 * HexDigitValue(s[i + 2])
                                           + 256 * HexDigitValue(s[i + 3])
                                           + 16 * HexDigitValue(s[i + 4])
                                           + HexDigitValue(s[i + 5]))))
         ELSE ParseFail
    ELSE ParseStringBody(s, i + 1, Append(acc, s[i]))

\* the digits that stand in s from index i on
RECURSIVE ParseDigits(_, _, _)
ParseDigits(s, i, acc) ==
    IF i <= Len(s) /\ IsDigit(s[i])
    THEN ParseDigits(s, i + 1, Append(acc, s[i]))
    ELSE [digits |-> acc, next |-> i]

RECURSIVE StripLeadingZeros(_)
StripLeadingZeros(d) ==
    IF d # <<>> /\ d[1] = "0" THEN StripLeadingZeros(Tail(d)) ELSE d

RECURSIVE StripTrailingZeros(_)
StripTrailingZeros(d) ==
    IF d # <<>> /\ d[Len(d)] = "0"
    THEN StripTrailingZeros(SubSeq(d, 1, Len(d) - 1))
    ELSE d

\* the value of the digits of an exponent, held at cap when it is larger
RECURSIVE ExponentValue(_, _, _)
ExponentValue(d, acc, cap) ==
    IF d = <<>> THEN acc
    ELSE IF 10 * acc + DigitValue(d[1]) > cap
    THEN cap
    ELSE ExponentValue(Tail(d), 10 * acc + DigitValue(d[1]), cap)

Zeros(n) == [k \in 1..n |-> "0"]

\* Number::toString of the number 0.d1d2...dk * 10^n (d1 and dk not zero),
\* negative when neg
FormatNumber(neg, d, n) ==
    LET k == Len(d)
        e == n - 1
        sign == IF neg THEN <<"-">> ELSE <<>>
    IN  IF k <= n /\ n <= 21 THEN sign \o d \o Zeros(n - k)
        ELSE IF 0 < n /\ n <= 21
        THEN sign \o SubSeq(d, 1, n) \o <<".">> \o SubSeq(d, n + 1, k)
        ELSE IF -6 < n /\ n <= 0
        THEN sign \o <<"0", ".">> \o Zeros(-n) \o d
        ELSE sign \o <<d[1]>>
             \o (IF k > 1 THEN <<".">> \o SubSeq(d, 2, k) ELSE <<>>)
             \o <<"e">>
             \o (IF e < 0 THEN <<"-">> \o NumberToString(-e)
                 ELSE <<"+">> \o NumberToString(e))

\* An exact decimal is [int, frac]: the digits, as numbers 0 to 9, before
\* and after the decimal point, int without leading and frac without
\* trailing zeros (both empty for zero).

\* the decimal 0.d1d2...dk * 10^n
ToDecimal(d, n) ==
    [int |-> [k \in 1..n |-> IF k <= Len(d) THEN DigitValue(d[k]) ELSE 0],
     frac |-> [k \in 1..(Len(d) - n) |->
                  IF k + n >= 1 THEN DigitValue(d[k + n]) ELSE 0]]

\* twice the decimal x: a digit takes a carry when the digit after it is 5
\* or more
Double(x) ==
    LET a == x.int \o x.frac
        n == Len(a)
        i == Len(x.int) + 1
        r == [j \in 1..(n + 1) |->
                 (IF j = 1 THEN 0 ELSE (2 * a[j - 1]) % 10)
                 + (IF j <= n /\ a[j] >= 5 THEN 1 ELSE 0)]
    IN  [int |-> SubSeq(r, IF r[1] = 0 THEN 2 ELSE 1, i),
         frac |-> SubSeq(r, i + 1, IF r[n + 1] = 0 THEN n ELSE n + 1)]

\* half the decimal x: a digit takes 5 when the digit before it is odd
Halve(x) ==
    LET a == x.int \o x.frac
        n == Len(a)
        i == Len(x.int)
        r == [j \in 1..(n + 1) |->
                 (IF j <= n THEN a[j] \div 2 ELSE 0)
                 + (IF j > 1 /\ a[j - 1] % 2 = 1 THEN 5 ELSE 0)]
    IN  [int |-> SubSeq(r, IF i >= 1 /\ r[1] = 0 THEN 2 ELSE 1, i),
         frac |-> SubSeq(r, i + 1, IF r[n + 1] = 0 THEN n ELSE n + 1)]

\* 2^52 and 2^53
TwoTo52 == <<4, 5, 0, 3, 5, 9, 9, 6, 2, 7, 3, 7, 0, 4, 9, 6>>

TwoTo53 == <<9, 0, 0, 7, 1, 9, 9, 2, 5, 4, 7, 4, 0, 9, 9, 2>>

\* the smallest and the largest exponent q of a double m * 2^q, m < 2^53
MinExponent == -1074

MaxExponent == 971

\* the order of a and b, digit sequences of one length: -1, 0 or 1, decided
\* at the first index where they differ
CompareDigits(a, b) ==
    IF a = b THEN 0
    ELSE LET i == CHOOSE k \in 1..Len(a) :
                      a[k] # b[k] /\ \A j \in 1..(k - 1) : a[j] = b[j]
         IN  IF a[i] < b[i] THEN -1 ELSE 1

\* whether the integer a is below the integer b (no leading zeros)
IntLess(a, b) ==
    Len(a) < Len(b) \/ (Len(a) = Len(b) /\ CompareDigits(a, b) < 0)

\* the integer a plus one
RECURSIVE Succ(_)
Succ(a) ==
    IF a = <<>> THEN <<1>>
    ELSE IF a[Len(a)] < 9 THEN [a EXCEPT ![Len(a)] = @ + 1]
    ELSE Succ(SubSeq(a, 1, Len(a) - 1)) \o <<0>>

\* the integer a minus one, a > 0
RECURSIVE Pred(_)
Pred(a) ==
    IF a = <<1>> THEN <<>>
    ELSE IF a[Len(a)] > 0 THEN [a EXCEPT ![Len(a)] = @ - 1]
    ELSE Pred(SubSeq(a, 1, Len(a) - 1)) \o <<9>>

\* x / 2^q brought into the range of a significand: halved while it is 2^53
\* or more, doubled while it is below 2^52 and q above the smallest exponent
RECURSIVE Normalize(_, _)
Normalize(x, q) ==
    IF ~IntLess(x.int, TwoTo53) THEN Normalize(Halve(x), q + 1)
    ELSE IF IntLess(x.int, TwoTo52) /\ q > MinExponent
    THEN Normalize(Double(x), q - 1)
    ELSE [x |-> x, q |-> q]

\* the significand x rounded to an integer, a tie going to the even one
RoundHalfEven(x) ==
    IF /\ x.frac # <<>>
       /\ \/ x.frac[1] > 5
          \/ /\ x.frac[1] = 5
             /\ (Len(x.frac) > 1 \/ (x.int # <<>> /\ x.int[Len(x.int)] % 2 = 1))
    THEN Succ(x.int)
    ELSE x.int

\* the double m * 2^q nearest to the decimal of r = [x, q]; m = <<>> is zero,
\* q above the largest exponent is an infinity
Rounded(r, m) ==
    IF m = TwoTo53 THEN [m |-> TwoTo52, q |-> r.q + 1] ELSE [m |-> m, q |-> r.q]

RoundedFrom(r) == Rounded(r, RoundHalfEven(r.x))

ZeroDecimal == [int |-> <<>>, frac |-> <<>>]

\* the decimal x times 2^q, by doubling or halving it |q| times
RECURSIVE Times2(_, _)
Times2(x, q) ==
    IF x = ZeroDecimal \/ q = 0 THEN x
    ELSE IF q = 1 THEN Double(x)
    ELSE IF q = -1 THEN Halve(x)
    ELSE Times2(Times2(x, q \div 2), q - (q \div 2))

\* an integer that is at most log2(10^e), and less than 2 below it for the
\* exponents of the doubles
Log2OfPow10(e) ==
    IF e >= 0 THEN (e * 3321928) \div 1000000
    ELSE -(((-e) * 3321929 + 999999) \div 1000000)

\* the exponent the search for the double of a decimal between 10^(n-1) and
\* 10^n starts from: not above the exponent that makes the significand one
\* of 53 bits, not below the smallest exponent
StartExponent(n) ==
    IF Log2OfPow10(n - 1) - 52 < MinExponent
    THEN MinExponent
    ELSE Log2OfPow10(n - 1) - 52

\* the double nearest to the decimal x, 10^(n-1) <= x < 10^n
ToDouble(x, n) ==
    RoundedFrom(Normalize(Times2(x, -StartExponent(n)), StartExponent(n)))

\* of the double v = m * 2^q: the lower end of the decimals that round to
\* it, v itself, the upper end.  The ends lie half way to the neighbouring
\* doubles; the lower neighbour of a power of two is half as far away.
RoundingInterval(v) ==
    <<Times2([int |-> Pred(v.m),
              frac |-> IF v.m = TwoTo52 /\ v.q > MinExponent
                       THEN <<7, 5>> ELSE <<5>>],
             v.q),
      Times2([int |-> v.m, frac |-> <<>>], v.q),
      Times2([int |-> v.m, frac |-> <<5>>], v.q)>>

\* the decimals xs as digit sequences of one length, [digits, point]: each
\* with the same number of digits before the point, the first of them 0
Aligned(xs) ==
    LET il == 1 + CHOOSE n \in {Len(xs[k].int) : k \in 1..Len(xs)} :
                     \A k \in 1..Len(xs) : Len(xs[k].int) <= n
        fl == CHOOSE n \in {Len(xs[k].frac) : k \in 1..Len(xs)} :
                  \A k \in 1..Len(xs) : Len(xs[k].frac) <= n
    IN  [digits |->
             [k \in 1..Len(xs) |->
                 [j \in 1..(il - Len(xs[k].int)) |-> 0]
                 \o xs[k].int \o xs[k].frac
                 \o [j \in 1..(fl - Len(xs[k].frac)) |-> 0]],
         point |-> il]

\* the index of the first digit of a that is not 0
FirstNonZero(a) ==
    CHOOSE i \in 1..Len(a) : a[i] # 0 /\ \A j \in 1..(i - 1) : a[j] = 0

\* the decimal of fewest significant digits between lo and hi (the ends
\* counted when closed), and of those the nearest to v, a tie going to the
\* even digit: looked for among the two decimals of k significant digits
\* around v, k = 1, 2, ...; first is the index of the first digit of v
RECURSIVE Shortest(_, _, _, _, _, _)
Shortest(lo, v, hi, closed, first, k) ==
    LET t == first + k - 1
        floor == [j \in 1..Len(v) |-> IF j <= t THEN v[j] ELSE 0]
        ceil == Succ(SubSeq(v, 1, t)) \o [j \in 1..(Len(v) - t) |-> 0]
        bound == IF closed THEN 1 ELSE 0
    IN  IF t >= Len(v) \/ floor = v THEN v
        ELSE IF CompareDigits(lo, floor) < bound
        THEN IF /\ CompareDigits(ceil, hi) < bound
                /\ \/ v[t + 1] > 5
                   \/ /\ v[t + 1] = 5
                      /\ \/ v[t] % 2 = 1
                         \/ \E j \in (t + 2)..Len(v) : v[j] # 0
             THEN ceil
             ELSE floor
        ELSE IF CompareDigits(ceil, hi) < bound THEN ceil
        ELSE Shortest(lo, v, hi, closed, first, k + 1)

\* Number::toString of the digit sequence a with point digits before the
\* decimal point, which has at most 17 significant digits
DigitsToString(neg, a, point) ==
    LET first == FirstNonZero(a)
        k == IF Len(a) - first + 1 < 17 THEN Len(a) - first + 1 ELSE 17
    IN  FormatNumber(neg,
                     StripTrailingZeros(
                         [j \in 1..k |-> Digits[a[first + j - 1] + 1]]),
                     point - first + 1)

\* the decimal of fewest digits among those of al, [lo, v, hi] aligned
ShortestInInterval(neg, al, closed) ==
    DigitsToString(neg,
                   Shortest(al.digits[1], al.digits[2], al.digits[3], closed,
                            FirstNonZero(al.digits[2]), 1),
                   al.point)

\* Number::toString of the double v = m * 2^q: the decimal of fewest
\* digits that rounds to v; a decimal half way between two doubles rounds
\* to the one of even m
DoubleToString(neg, v) ==
    IF v.m = <<>> THEN <<"0">>
    ELSE IF v.q > MaxExponent
    THEN (IF neg THEN <<"-">> ELSE <<>>) \o InfinityText
    ELSE ShortestInInterval(neg, Aligned(RoundingInterval(v)),
                            v.m[Len(v.m)] % 2 = 0)

\* String(value) of the double nearest to 0.d1d2...dk * 10^n (d1 and dk
\* not zero), negative when neg: JSON.parse rounds the numeral to the
\* nearest double, a tie going to the even significand.  A numeral below
\* 1e-324 gives 0 and one from 1e309 on an infinity; a numeral of at most
\* 15 digits between 1e-307 and 1e308 is the shortest decimal of its own
\* double, as no two such numerals round to one double.
DecimalToString(neg, d, n) ==
    IF d = <<>> \/ n < -323 THEN <<"0">>
    ELSE IF n > 309 THEN (IF neg THEN <<"-">> ELSE <<>>) \o InfinityText
    ELSE IF Len(d) <= 15 /\ -306 <= n /\ n <= 308 THEN FormatNumber(neg, d, n)
    ELSE DoubleToString(neg, ToDouble(ToDecimal(d, n), n))

\* the number with the digits all, the decimal point standing after the
\* first point of them (point may be negative or beyond the digits)
DecimalValue(neg, all, point) ==
    DecimalToString(neg,
                    StripTrailingZeros(StripLeadingZeros(all)),
                    point - (Len(all) - Len(StripLeadingZeros(all))))

\* the end of a number token: exp holds the digits of the exponent.  With
\* k digits in the numeral, an exponent of k + 400 or more gives the same
\* number as k + 400: an infinity (or 0 when every digit is 0) when it is
\* positive, 0 when it is negative.
NumberToken(neg, intDigits, fracDigits, exp, expSign, hasExp) ==
    IF hasExp /\ exp.digits = <<>> THEN ParseFail
    ELSE ParseOk(JsNumber(DecimalValue(neg, intDigits \o fracDigits,
                              Len(intDigits)
                              + expSign
                                * ExponentValue(exp.digits, 0,
                                      Len(intDigits) + Len(fracDigits)
                                      + 400))),
                 exp.next)

\* the optional exponent of a number token, from index i: e or E, an
\* optional sign, digits
ParseExponent(s, i, neg, intDigits, fracDigits) ==
    NumberToken(neg, intDigits, fracDigits,
                IF i > Len(s) \/ s[i] \notin {"e", "E"}
                THEN [digits |-> <<>>, next |-> i]
                ELSE IF i + 1 <= Len(s) /\ s[i + 1] \in {"+", "-"}
                THEN ParseDigits(s, i + 2, <<>>)
                ELSE ParseDigits(s, i + 1, <<>>),
                IF i + 1 <= Len(s) /\ s[i + 1] = "-" THEN -1 ELSE 1,
                i <= Len(s) /\ s[i] \in {"e", "E"})

\* the optional fraction of a number token, frac holding its digits
FractionToken(s, neg, intDigits, frac, hasFrac) ==
    IF hasFrac /\ frac.digits = <<>> THEN ParseFail
    ELSE ParseExponent(s, frac.next, neg, intDigits, frac.digits)

\* the optional fraction of a number token, after the integer part int,
\* which has no leading zero
ParseFraction(s, neg, int) ==
    IF int.digits = <<>> \/ (Len(int.digits) > 1 /\ int.digits[1] = "0")
    THEN ParseFail
    ELSE FractionToken(s, neg, int.digits,
                       IF int.next <= Len(s) /\ s[int.next] = "."
                       THEN ParseDigits(s, int.next + 1, <<>>)
                       ELSE [digits |-> <<>>, next |-> int.next],
                       int.next <= Len(s) /\ s[int.next] = ".")

\* a number token from index i: an optional minus sign, an integer part, an
\* optional fraction, an optional exponent
ParseNumber(s, i) ==
    ParseFraction(s, s[i] = "-",
                  ParseDigits(s, IF s[i] = "-" THEN i + 1 ELSE i, <<>>))

RECURSIVE ParseValue(_, _)
RECURSIVE ParseElements(_, _, _)
RECURSIVE ParseMembers(_, _, _)

ParseValue(s, i0) ==
    LET i == SkipWhitespace(s, i0) IN
    IF i > Len(s) THEN ParseFail
    ELSE IF s[i] = "[" THEN
        LET j == SkipWhitespace(s, i + 1) IN
        IF j <= Len(s) /\ s[j] = "]"
        THEN ParseOk(JsArray(<<>>), j + 1)
        ELSE ParseElements(s, j, <<>>)
    ELSE IF s[i] = "{" THEN
        LET j == SkipWhitespace(s, i + 1) IN
        IF j <= Len(s) /\ s[j] = "}"
        THEN ParseOk(JsObject(<<>>), j + 1)
        ELSE ParseMembers(s, j, <<>>)
    ELSE IF s[i] = "\"" THEN ParseStringBody(s, i + 1, <<>>)
    ELSE IF s[i] = "-" \/ IsDigit(s[i]) THEN ParseNumber(s, i)
    ELSE IF MatchesAt(s, i, <<"t", "r", "u", "e">>)
    THEN ParseOk(JsBoolean(TRUE), i + 4)
    ELSE IF MatchesAt(s, i, <<"f", "a", "l", "s", "e">>)
    THEN ParseOk(JsBoolean(FALSE), i + 5)
    ELSE IF MatchesAt(s, i, NullText)
    THEN ParseOk(JsNull, i + 4)
    ELSE ParseFail

\* the elements of an array from index i, acc holding those before
ParseElements(s, i, acc) ==
    LET r == ParseValue(s, i) IN
    IF ~r.ok THEN ParseFail
    ELSE LET j == SkipWhitespace(s, r.next) IN
         IF j > Len(s) THEN ParseFail
         ELSE IF s[j] = "," THEN ParseElements(s, j + 1, Append(acc, r.val))
         ELSE IF s[j] = "]"
         THEN ParseOk(JsArray(Append(acc, r.val)), j + 1)
         ELSE ParseFail

\* the members of an object from index i, acc holding the properties
\* created before
ParseMembers(s, i, acc) ==
    LET k == SkipWhitespace(s, i) IN
    IF k > Len(s) \/ s[k] # "\"" THEN ParseFail
    ELSE LET key == ParseStringBody(s, k + 1, <<>>) IN
         IF ~key.ok THEN ParseFail
         ELSE LET c == SkipWhitespace(s, key.next) IN
              IF c > Len(s) \/ s[c] # ":" THEN ParseFail
              ELSE LET r == ParseValue(s, c + 1) IN
                   IF ~r.ok THEN ParseFail
                   ELSE LET j == SkipWhitespace(s, r.next)
                            m == SetProperty(acc, key.val.str, r.val)
                        IN  IF j > Len(s) THEN ParseFail
                            ELSE IF s[j] = "," THEN ParseMembers(s, j + 1, m)
                            ELSE IF s[j] = "}"
                            THEN ParseOk(JsObject(m), j + 1)
                            ELSE ParseFail

\* JSON.parse(text): [ok, val]; ok = FALSE stands for the SyntaxError thrown
JSONparse(text) ==
    LET r == ParseValue(text, 1) IN
    IF r.ok /\ SkipWhitespace(text, r.next) = Len(text) + 1
    THEN [ok |-> TRUE, val |-> r.val]
    ELSE [ok |-> FALSE, val |-> [kind |-> "none"]]

-----------------------------------------------------------------------------
(* The stored value and the start of the application.                      *)

NoValue == [present |-> FALSE, value |-> <<>>]

\* localStorage.setItem('todos', text)
SetItem(text) == [present |-> TRUE, value |-> text]

\* the object or array v as the n-th object of its content that JSON.parse
\* created: the field ref tells it from every other object of equal content
Referenced(v, n) ==
    IF v.kind = "object"
    THEN [kind |-> "object", members |-> v.members, ref |-> n]
    ELSE IF v.kind = "array"
    THEN [kind |-> "array", items |-> v.items, ref |-> n]
    ELSE v

\* the number of elements before the k-th whose id has the content of its id
EqualIdsBefore(items, k) ==
    Cardinality({j \in 1..(k - 1) :
                    Get(items[j], KeyId) = Get(items[k], KeyId)})

\* the elements from the k-th on, the ids that are objects told apart
RECURSIVE ReferencedFrom(_, _)
ReferencedFrom(items, k) ==
    IF k > Len(items) THEN <<>>
    ELSE IF items[k].kind = "object" /\ HasProperty(items[k].members, KeyId)
    THEN <<JsObject(SetProperty(items[k].members, KeyId,
                                Referenced(Get(items[k], KeyId),
                                           EqualIdsBefore(items, k) + 1)))>>
         \o ReferencedFrom(items, k + 1)
    ELSE <<items[k]>> \o ReferencedFrom(items, k + 1)

\* every object JSON.parse returns is a new object.  The handlers compare
\* ids with ===, so an id that is an object or an array is kept apart from
\* the ids of the other elements; copies of the element ({ ...todo }) hold
\* the same id.
WithReferences(v) ==
    IF v.kind = "array" THEN JsArray(ReferencedFrom(v.items, 1)) ELSE v

\* the outcome r of JSON.parse as the outcome of the initializer
Parsed(r) == [threw |-> ~r.ok, val |-> WithReferences(r.val)]

\* the useState initializer:
\*   const saved = localStorage.getItem('todos');
\*   return saved ? JSON.parse(saved) : [];
\* null and the empty string are falsy; whatever JSON.parse returns becomes
\* the state
Load(saved) ==
    IF ~saved.present \/ saved.value = <<>>
    THEN [threw |-> FALSE, val |-> JsArray(<<>>)]
    ELSE Parsed(JSONparse(saved.value))

\* what React accepts as the child {todo.text}: anything but a plain object,
\* in an array every element likewise
RECURSIVE IsReactNode(_)
IsReactNode(v) ==
    IF v.kind = "object" THEN FALSE
    ELSE IF v.kind = "array"
    THEN \A k \in 1..Len(v.items) : IsReactNode(v.items[k])
    ELSE TRUE

\* whether the first render on state v throws: todos.length and todos.filter
\* on a value that is no array, t.completed on a null element (TypeError),
\* a text that React cannot render
RenderThrows(v) ==
    \/ v.kind # "array"
    \/ \E k \in 1..Len(v.items) :
          \/ v.items[k].kind = "null"
          \/ ~IsReactNode(Get(v.items[k], KeyText))

-----------------------------------------------------------------------------
(* Array methods and the state updaters.  The array methods work on the    *)
(* sequence of the elements.  An updater's result carries the new state    *)
(* and whether it is a new array object: React schedules the effect of     *)
(* [todos] only when Object.is finds the state changed.                    *)

\* arr.filter(t => t.completed) for flag = TRUE, arr.filter(t => !t.completed)
\* for flag = FALSE
RECURSIVE FilterByCompleted(_, _)
FilterByCompleted(arr, flag) ==
    IF arr = <<>> THEN <<>>
    ELSE IF Truthy(Get(Head(arr), KeyCompleted)) = flag
    THEN <<Head(arr)>> \o FilterByCompleted(Tail(arr), flag)
    ELSE FilterByCompleted(Tail(arr), flag)

\* variant: === in place of !==
RECURSIVE FilterKeepId(_, _)
FilterKeepId(arr, id) ==
    IF arr = <<>> THEN <<>>
    ELSE IF StrictEquals(Get(Head(arr), KeyId), id)
    THEN <<Head(arr)>> \o FilterKeepId(Tail(arr), id)
    ELSE FilterKeepId(Tail(arr), id)

\* arr.filter(todo => todo.id !== id)
RECURSIVE FilterOutId(_, _)
FilterOutId(arr, id) ==
    IF arr = <<>> THEN <<>>
    ELSE IF ~StrictEquals(Get(Head(arr), KeyId), id)
    THEN <<Head(arr)>> \o FilterOutId(Tail(arr), id)
    ELSE FilterOutId(Tail(arr), id)

\* the own enumerable properties { ...v } copies: those of an object, the
\* elements of an array and the code units of a string under their indices,
\* none for a number or a boolean
OwnProperties(v) ==
    IF v.kind = "object" THEN v.members
    ELSE IF v.kind = "array"
    THEN [k \in 1..Len(v.items) |->
             [key |-> NumberToString(k - 1), val |-> v.items[k]]]
    ELSE IF v.kind = "string"
    THEN [k \in 1..Len(v.str) |->
             [key |-> NumberToString(k - 1), val |-> JsString(<<v.str[k]>>)]]
    ELSE <<>>

\* { ...todo, completed: value }
WithCompleted(todo, value) ==
    JsObject(SetProperty(OwnProperties(todo), KeyCompleted, JsBoolean(value)))

\* variant: completed: true in place of !todo.completed
ToggleSetsTrue(todo, id) ==
    IF StrictEquals(Get(todo, KeyId), id)
    THEN WithCompleted(todo, TRUE)
    ELSE todo

\* variant: the id is not compared
ToggleAny(todo, id) ==
    WithCompleted(todo, ~Truthy(Get(todo, KeyCompleted)))

\* todo.id === id ? { ...todo, completed: !todo.completed } : todo
ToggleOne(todo, id) ==
    IF StrictEquals(Get(todo, KeyId), id)
    THEN WithCompleted(todo, ~Truthy(Get(todo, KeyCompleted)))
    ELSE todo

\* arr.map(todo => ...)
RECURSIVE MapToggle(_, _)
MapToggle(arr, id) ==
    IF arr = <<>> THEN <<>>
    ELSE <<ToggleOne(Head(arr), id)>> \o MapToggle(Tail(arr), id)

\* { id: uuid, text: text, completed: false, createdAt: t }
NewTodo(uuid, text, t) ==
    JsObject(<<[key |-> KeyId, val |-> JsString(uuid)],
               [key |-> KeyText, val |-> JsString(text)],
               [key |-> KeyCompleted, val |-> JsBoolean(FALSE)],
               [key |-> KeyCreatedAt, val |-> JsNumber(NumberToString(t))]>>)

\* variant: [...prev, newTodo]
AddAppend(prev, newTodo) ==
    [arr |-> JsArray(Append(prev.items, newTodo)), fresh |-> TRUE]

\* prev => [newTodo, ...prev]
AddUpdater(prev, newTodo) ==
    [arr |-> JsArray(<<newTodo>> \o prev.items), fresh |-> TRUE]

\* variant: the tasks are changed in place and prev itself is returned
ToggleInPlace(prev, id) ==
    [arr |-> JsArray(MapToggle(prev.items, id)), fresh |-> FALSE]

\* prev => prev.map(...): map returns a new array
ToggleUpdater(prev, id) ==
    [arr |-> JsArray(MapToggle(prev.items, id)), fresh |-> TRUE]

\* variant: prev itself is returned when no task has the id
DeleteSkipsAbsent(prev, id) ==
    [arr |-> JsArray(FilterOutId(prev.items, id)),
     fresh |-> \E k \in 1..Len(prev.items) :
                  StrictEquals(Get(prev.items[k], KeyId), id)]

\* prev => prev.filter(todo => todo.id !== id): filter returns a new array
DeleteUpdater(prev, id) ==
    [arr |-> JsArray(FilterOutId(prev.items, id)), fresh |-> TRUE]

\* variant: t => t.completed
ClearKeepCompleted(prev) ==
    [arr |-> JsArray(FilterByCompleted(prev.items, TRUE)), fresh |-> TRUE]

\* prev => prev.filter(t => !t.completed)
ClearUpdater(prev) ==
    [arr |-> JsArray(FilterByCompleted(prev.items, FALSE)), fresh |-> TRUE]

\* variant: !inputValue
IsEmptyUntrimmed(s) == s = <<>>

\* !inputValue.trim()
IsBlank(s) == Trim(s) = <<>>

\* crypto.randomUUID(): a random value; the generator keeps no record of
\* the values it has returned
RandomUUID == UUIDs

\* Date.now(): the clock, which advances between two submits
DateNow == now

\* variant: the cases of the switch exchanged
FilteredTodosSwapped(arr, f) ==
    IF f = "pending" THEN JsArray(FilterByCompleted(arr.items, TRUE))
    ELSE IF f = "completed" THEN JsArray(FilterByCompleted(arr.items, FALSE))
    ELSE arr

\* the useMemo value filteredTodos
FilteredTodos(arr, f) ==
    IF f = "pending" THEN JsArray(FilterByCompleted(arr.items, FALSE))
    ELSE IF f = "completed" THEN JsArray(FilterByCompleted(arr.items, TRUE))
    ELSE arr

filteredTodos == FilteredTodos(todos, filter)

\* variant: pending counted in the filtered view
StatsOfView(arr) ==
    [total |-> Len(arr.items),
     pending |-> Len(FilterByCompleted(filteredTodos.items, FALSE)),
     completed |-> Len(FilterByCompleted(arr.items, TRUE))]

Stats(arr) ==
    [total |-> Len(arr.items),
     pending |-> Len(FilterByCompleted(arr.items, FALSE)),
     completed |-> Len(FilterByCompleted(arr.items, TRUE))]

stats == Stats(todos)

\* the todo.id of the rows of the list, filteredTodos.map(todo => ...); a
\* page that is not mounted has no row
ShownIds(arr, f) ==
    IF arr.kind = "array"
    THEN {Get(FilteredTodos(arr, f).items[k], KeyId) :
             k \in 1..Len(FilteredTodos(arr, f).items)}
    ELSE {}

\* AnimatePresence: a row that is no longer among the children stays on the
\* page, with the handlers of its last render, while its exit animation
\* runs; a row that comes back among the children is no longer leaving.
\* No clock is modelled: an exit runs until the page is opened again.
RowsLeaving(left, before, after) == (left \cup before) \ after

\* the ids the toggle and delete buttons on the page pass, toggleTodo(todo.id)
\* and deleteTodo(todo.id): those of the rows of the list and of the rows
\* that are leaving, undefined for a row whose element has no id
ClickIdsOf(arr, f, left) == ShownIds(arr, f) \cup left

ClickIds == ClickIdsOf(todos, filter, leaving)

-----------------------------------------------------------------------------
(* The state machine.  A handler runs when the event loop is free; the     *)
(* render and commit of the state it sets are part of its step, and the    *)
(* persistence effect of that commit runs before the next event.           *)

Op(name, arg) == [op |-> name, arg |-> arg]

\* the second instance before it is opened
NotOpened ==
    [todos |-> JsArray(<<>>), inputValue |-> <<>>, filter |-> "all",
     pc |-> "closed", leaving |-> {}]

\* variant: the effect has the dependency list [] and runs on mount only
SetTodosWithoutEffect(r) ==
    /\ todos' = r.arr
    /\ pc' = pc
    /\ leaving' = RowsLeaving(leaving, ShownIds(todos, filter),
                              ShownIds(r.arr, filter))

\* setTodos(updater) and the render that follows
SetTodos(r) ==
    /\ todos' = r.arr
    /\ pc' = IF r.fresh THEN "effect" ELSE pc
    /\ leaving' = RowsLeaving(leaving, ShownIds(todos, filter),
                              ShownIds(r.arr, filter))

\* the state and the outcome of the first render of a start of the
\* application on the stored value saved.  A SyntaxError of JSON.parse
\* leaves the initializer uncaught and there is no state; a value the first
\* render throws on has become the state, and the error of the render is
\* uncaught as well: in both cases React mounts nothing and no effect runs
\* ("crashed").  Any other value is mounted and its effect is scheduled.
Mounted(saved) ==
    LET l == Load(saved) IN
    IF l.threw
    THEN [todos |-> JsUndefined, pc |-> "crashed", leaving |-> {}]
    ELSE IF RenderThrows(l.val)
    THEN [todos |-> l.val, pc |-> "crashed", leaving |-> {}]
    ELSE [todos |-> l.val, pc |-> "effect", leaving |-> {}]

\* the mount with outcome m
MountWith(m, op) ==
    /\ todos' = m.todos
    /\ pc' = m.pc
    /\ leaving' = m.leaving
    /\ inputValue' = <<>>
    /\ filter' = "all"
    /\ lastOp' = Op(op, JsUndefined)

Mount(op) == MountWith(Mounted(storage), op)

\* the first start, on a store that holds nothing: the state is [] and its
\* effect is scheduled
Init ==
    /\ storage = NoValue
    /\ todos = Load(NoValue).val
    /\ inputValue = <<>>
    /\ filter = "all"
    /\ pc = "effect"
    /\ issued = {}
    /\ now = StartTime
    /\ lastOp = Op("mount", JsUndefined)
    /\ leaving = {}
    /\ other = NotOpened

\* useEffect(() => localStorage.setItem('todos', JSON.stringify(todos)), [todos])
Effect ==
    /\ pc = "effect"
    /\ storage' = SetItem(JSONstringify(todos))
    /\ pc' = "idle"
    /\ lastOp' = Op("effect", JsUndefined)
    /\ UNCHANGED <<todos, inputValue, filter, issued, now, leaving, other>>

\* onChange of the input field
SetInputValue(v) ==
    /\ pc = "idle"
    /\ v # inputValue
    /\ inputValue' = v
    /\ lastOp' = Op("input", JsUndefined)
    /\ UNCHANGED <<todos, filter, storage, pc, issued, now, leaving, other>>

\* variant: the effect depends on [todos, filter]
SetFilterRunsEffect(f) ==
    /\ pc = "idle"
    /\ filter' = f
    /\ pc' = IF f # filter THEN "effect" ELSE pc
    /\ leaving' = RowsLeaving(leaving, ShownIds(todos, filter),
                              ShownIds(todos, f))
    /\ lastOp' = Op("filter", JsUndefined)
    /\ UNCHANGED <<todos, inputValue, storage, issued, now, other>>

\* onClick of a filter button
SetFilter(f) ==
    /\ pc = "idle"
    /\ filter' = f
    /\ leaving' = RowsLeaving(leaving, ShownIds(todos, filter),
                              ShownIds(todos, f))
    /\ lastOp' = Op("filter", JsUndefined)
    /\ UNCHANGED <<todos, inputValue, storage, pc, issued, now, other>>

\* onSubmit of the form
AddTodo ==
    /\ pc = "idle"
    /\ lastOp' = Op("add", JsUndefined)
    /\ IF IsBlank(inputValue)
       THEN UNCHANGED <<todos, inputValue, filter, storage, pc, issued, now,
                        leaving, other>>
       ELSE \E uuid \in RandomUUID :
               /\ now < StartTime + MaxAdds
               /\ SetTodos(AddUpdater(todos,
                                      NewTodo(uuid, Trim(inputValue), DateNow)))
               /\ inputValue' = <<>>
               /\ issued' = issued \cup {uuid}
               /\ now' = now + 1
               /\ UNCHANGED <<filter, storage, other>>

\* onClick of a task's toggle button
ToggleTodo(id) ==
    /\ pc = "idle"
    /\ SetTodos(ToggleUpdater(todos, id))
    /\ lastOp' = Op("toggle", id)
    /\ UNCHANGED <<inputValue, filter, storage, issued, now, other>>

\* onClick of a task's delete button
DeleteTodo(id) ==
    /\ pc = "idle"
    /\ SetTodos(DeleteUpdater(todos, id))
    /\ lastOp' = Op("delete", id)
    /\ UNCHANGED <<inputValue, filter, storage, issued, now, other>>

\* onClick of 'Limpar concluidas', rendered while todos.length > 0
ClearCompleted ==
    /\ pc = "idle"
    /\ Len(todos.items) > 0
    /\ SetTodos(ClearUpdater(todos))
    /\ lastOp' = Op("clear", JsUndefined)
    /\ UNCHANGED <<inputValue, filter, storage, issued, now, other>>

\* the page is closed and opened again: App mounts afresh
Reload ==
    /\ pc \in {"idle", "crashed"}
    /\ Mount("reload")
    /\ UNCHANGED <<storage, issued, now, other>>

Next ==
    \/ Effect
    \/ \E v \in InputValues : SetInputValue(v)
    \/ \E f \in FilterTypes : SetFilter(f)
    \/ AddTodo
    \/ \E id \in ClickIds : ToggleTodo(id)
    \/ \E id \in ClickIds : DeleteTodo(id)
    \/ ClearCompleted
    \/ Reload

Spec == Init /\ [][Next]_vars

\* React runs every effect it has scheduled
SpecFair == Spec /\ WF_vars(Effect)

-----------------------------------------------------------------------------
(* A first start on a store that already holds a value: one an earlier     *)
(* session wrote, or one that something else left under the key.           *)

\* a task an earlier session created
StoredTodo == NewTodo(<<"1">>, <<"a">>, StartTime - 1)

\* that task with a fifth property, "x": -15
StoredTodoExtended ==
    JsObject(SetProperty(StoredTodo.members, <<"x">>,
                         JsNumber(<<"-", "1", "5">>)))

\* the numeral of 2^53 + 1, which is no double: JSON.parse gives 2^53
LongNumeral ==
    <<"9", "0", "0", "7", "1", "9", "9", "2", "5", "4", "7", "4", "0", "9",
      "9", "3">>

\* an element whose id is an object: [{"id":{}}]
ObjectId == <<"[", "{", "\"", "i", "d", "\"", ":", "{", "}", "}", "]">>

\* what localStorage.getItem('todos') can find: nothing, the empty string,
\* a saved collection, text that is not JSON, JSON on which the first
\* render throws (null, 7, {}, [null]) and JSON that is an array of
\* something else than the tasks the application writes
StoredValues ==
    { NoValue,
      SetItem(<<>>),
      SetItem(JSONstringify(JsArray(<<>>))),
      SetItem(JSONstringify(JsArray(<<StoredTodo>>))),
      SetItem(<<"[">>),
      SetItem(<<"n", "u", "l", "l">>),
      SetItem(<<"7">>),
      SetItem(<<"{", "}">>),
      SetItem(<<"[", "n", "u", "l", "l", "]">>),
      SetItem(<<"[", "1", "]">>),
      SetItem(<<"[", "{", "}", "]">>),
      SetItem(<<"[">> \o LongNumeral \o <<"]">>),
      SetItem(ObjectId),
      SetItem(JSONstringify(JsArray(<<StoredTodoExtended>>))) }

\* the ids of the tasks of a stored value, which an earlier session gave
StoredIds(saved) ==
    LET l == Load(saved) IN
    IF ~l.threw /\ l.val.kind = "array"
    THEN {id.str : id \in {v \in {Get(l.val.items[k], KeyId) :
                                     k \in 1..Len(l.val.items)} :
                              v.kind = "string"}}
    ELSE {}

InitLoad ==
    /\ storage \in StoredValues
    /\ todos = JsUndefined
    /\ inputValue = <<>>
    /\ filter = "all"
    /\ pc = "closed"
    /\ issued = StoredIds(storage)
    /\ now = StartTime
    /\ lastOp = Op("none", JsUndefined)
    /\ leaving = {}
    /\ other = NotOpened

\* the page is opened: App mounts on the stored value
Open ==
    /\ pc = "closed"
    /\ Mount("mount")
    /\ UNCHANGED <<storage, issued, now, other>>

NextLoad == Open \/ Next

SpecLoad == InitLoad /\ [][NextLoad]_vars

-----------------------------------------------------------------------------
(* Two instances on one store (two tabs).  Both run the whole of App.tsx:  *)
(* the second instance has its own todos, inputValue and filter, its own   *)
(* pending effect and its own leaving rows; the store and the clock are    *)
(* shared.                                                                 *)

firstInstance == <<todos, inputValue, filter, pc, lastOp, leaving>>

\* the mount of the second instance with outcome m
OtherMountWith(m) ==
    other' = [todos |-> m.todos, inputValue |-> <<>>, filter |-> "all",
              pc |-> m.pc, leaving |-> m.leaving]

\* the second instance is opened: its App mounts on the stored value
OtherOpen ==
    /\ other.pc = "closed"
    /\ OtherMountWith(Mounted(storage))
    /\ UNCHANGED <<firstInstance, storage, issued, now>>

\* the page of the second instance is closed and opened again
OtherReload ==
    /\ other.pc \in {"idle", "crashed"}
    /\ OtherMountWith(Mounted(storage))
    /\ UNCHANGED <<firstInstance, storage, issued, now>>

\* setTodos(updater) and the render that follows, in the second instance
OtherSetTodos(r) ==
    other' = [other EXCEPT
                 !.todos = r.arr,
                 !.pc = IF r.fresh THEN "effect" ELSE other.pc,
                 !.leaving = RowsLeaving(other.leaving,
                                         ShownIds(other.todos, other.filter),
                                         ShownIds(r.arr, other.filter))]

\* variant: the save keeps the stored tasks the instance does not hold
OtherEffectMerging ==
    /\ other.pc = "effect"
    /\ LET stored == Load(storage).val.items
           own == {Get(other.todos.items[k], KeyId) :
                      k \in 1..Len(other.todos.items)}
           kept == SelectSeq(stored, LAMBDA t : Get(t, KeyId) \notin own)
       IN  storage' =
               SetItem(JSONstringify(JsArray(other.todos.items \o kept)))
    /\ other' = [other EXCEPT !.pc = "idle"]
    /\ UNCHANGED <<firstInstance, issued, now>>

\* the persistence effect of the second instance
OtherEffect ==
    /\ other.pc = "effect"
    /\ storage' = SetItem(JSONstringify(other.todos))
    /\ other' = [other EXCEPT !.pc = "idle"]
    /\ UNCHANGED <<firstInstance, issued, now>>

\* onChange of the input field of the second instance
OtherSetInputValue(v) ==
    /\ other.pc = "idle"
    /\ v # other.inputValue
    /\ other' = [other EXCEPT !.inputValue = v]
    /\ UNCHANGED <<firstInstance, storage, issued, now>>

\* onClick of a filter button of the second instance
OtherSetFilter(f) ==
    /\ other.pc = "idle"
    /\ other' = [other EXCEPT
                    !.filter = f,
                    !.leaving = RowsLeaving(other.leaving,
                                            ShownIds(other.todos, other.filter),
                                            ShownIds(other.todos, f))]
    /\ UNCHANGED <<firstInstance, storage, issued, now>>

\* onSubmit of the form of the second instance
OtherAddTodo ==
    /\ other.pc = "idle"
    /\ IF IsBlank(other.inputValue)
       THEN UNCHANGED <<other, issued, now>>
       ELSE \E uuid \in RandomUUID :
               /\ now < StartTime + MaxAdds
               /\ other' =
                      [other EXCEPT
                          !.todos =
                              AddUpdater(other.todos,
                                         NewTodo(uuid, Trim(other.inputValue),
                                                 DateNow)).arr,
                          !.inputValue = <<>>,
                          !.pc = "effect",
                          !.leaving =
                              RowsLeaving(
                                  other.leaving,
                                  ShownIds(other.todos, other.filter),
                                  ShownIds(
                                      AddUpdater(other.todos,
                                                 NewTodo(uuid,
                                                         Trim(other.inputValue),
                                                         DateNow)).arr,
                                      other.filter))]
               /\ issued' = issued \cup {uuid}
               /\ now' = now + 1
    /\ UNCHANGED <<firstInstance, storage>>

\* the ids the buttons of the second instance pass
OtherClickIds == ClickIdsOf(other.todos, other.filter, other.leaving)

\* toggleTodo in the second instance
OtherToggleTodo(id) ==
    /\ other.pc = "idle"
    /\ OtherSetTodos(ToggleUpdater(other.todos, id))
    /\ UNCHANGED <<firstInstance, storage, issued, now>>

\* deleteTodo in the second instance
OtherDeleteTodo(id) ==
    /\ other.pc = "idle"
    /\ OtherSetTodos(DeleteUpdater(other.todos, id))
    /\ UNCHANGED <<firstInstance, storage, issued, now>>

\* 'Limpar concluidas' in the second instance
OtherClearCompleted ==
    /\ other.pc = "idle"
    /\ Len(other.todos.items) > 0
    /\ OtherSetTodos(ClearUpdater(other.todos))
    /\ UNCHANGED <<firstInstance, storage, issued, now>>

NextTwo ==
    \/ Next
    \/ OtherOpen
    \/ OtherEffect
    \/ \E v \in InputValues : OtherSetInputValue(v)
    \/ \E f \in FilterTypes : OtherSetFilter(f)
    \/ OtherAddTodo
    \/ \E id \in OtherClickIds : OtherToggleTodo(id)
    \/ \E id \in OtherClickIds : OtherDeleteTodo(id)
    \/ OtherClearCompleted
    \/ OtherReload

\* both tabs on a store that holds nothing, the first just started, at a
\* time from which MaxAddsTwo submits create a task
InitTwo ==
    /\ storage = NoValue
    /\ todos = Load(NoValue).val
    /\ inputValue = <<>>
    /\ filter = "all"
    /\ pc = "effect"
    /\ issued = {}
    /\ now = StartTime + MaxAdds - MaxAddsTwo
    /\ lastOp = Op("mount", JsUndefined)
    /\ leaving = {}
    /\ other = NotOpened

SpecTwo == InitTwo /\ [][NextTwo]_vars

-----------------------------------------------------------------------------
(* Properties.                                                             *)

IdOf(t) == Get(t, KeyId)

IdsOf(arr) == {IdOf(arr.items[k]) : k \in 1..Len(arr.items)}

IsPending(t) == Get(t, KeyCompleted) = JsBoolean(FALSE)

IsCompleted(t) == Get(t, KeyCompleted) = JsBoolean(TRUE)

HasChar(t, c) ==
    LET text == Get(t, KeyText).str IN \E k \in 1..Len(text) : text[k] = c

\* C1: after every operation the pending and completed counts add up to the
\* total, which is the size of the collection.
PendingPlusCompletedIsTotal ==
    /\ stats.pending + stats.completed = stats.total
    /\ stats.total = Len(todos.items)

\* a toggle has run on a collection that now holds a pending and a completed task
MixedStatsReached ==
    /\ lastOp.op = "toggle"
    /\ stats.pending >= 1
    /\ stats.completed >= 1

\* C2: whenever the application is ready for the next operation, the stored
\* value is the serialization of the current in-memory collection.
PersistedWhenIdle ==
    pc = "idle" => storage = SetItem(JSONstringify(todos))

\* the effect has written a collection of two tasks, one of them toggled
PersistedTwoTasks ==
    /\ pc = "idle"
    /\ lastOp.op = "effect"
    /\ Len(todos.items) = 2
    /\ \E k \in 1..2 : IsCompleted(todos.items[k])

\* C3: a fresh start loads the collection that was saved: the same tasks in
\* the same order with the same id, text, completed and createdAt.
ReloadRestoresCollection ==
    [][lastOp'.op = "reload" => (todos' = todos /\ pc' = "effect")]_vars

\* a fresh start has loaded two tasks, one completed, one whose text holds
\* a quote, a tab and a backslash
ReloadedTwoTasks ==
    /\ lastOp.op = "reload"
    /\ Len(todos.items) = 2
    /\ \E k \in 1..2 : IsCompleted(todos.items[k])
    /\ \E k \in 1..2 :
          /\ HasChar(todos.items[k], "\"")
          /\ HasChar(todos.items[k], "\t")
          /\ HasChar(todos.items[k], "\\")

\* C4: no two tasks of the collection share an id, and add gives a task an
\* id that no task created earlier has held.  crypto.randomUUID() can return
\* a value it has returned before and addTodo compares it with nothing: the
\* step that adds a second task under the id of the first violates this.
UniqueIdsNeverReused ==
    [][/\ \A j, k \in 1..Len(todos'.items) :
              IdOf(todos'.items[j]) = IdOf(todos'.items[k]) => j = k
       /\ (lastOp'.op = "add" /\ todos' # todos) =>
              IdOf(todos'.items[1]).str \notin issued]_vars

\* C5: add with text that is empty after trimming creates no task, leaves
\* the collection and its size unchanged and schedules no write.
BlankAddIsNoOp ==
    [][(lastOp'.op = "add" /\ Trim(inputValue) = <<>>) =>
          /\ todos' = todos
          /\ Stats(todos').total = Stats(todos).total
          /\ storage' = storage
          /\ pc' = "idle"]_vars

\* an add has run on whitespace-only input (a space and a tab) with a task
\* in the collection
BlankAddReached ==
    /\ lastOp.op = "add"
    /\ pc = "idle"
    /\ inputValue = <<" ", "\t">>
    /\ Len(todos.items) >= 1

\* C6: add with text that is not empty after trimming puts one new task,
\* with the trimmed text and completed = FALSE, in front of the unchanged
\* earlier tasks, so the view 'all' shows it first.
AddPrependsTrimmed ==
    [][(lastOp'.op = "add" /\ Trim(inputValue) # <<>>) =>
          /\ Len(todos'.items) = Len(todos.items) + 1
          /\ Get(todos'.items[1], KeyText) = JsString(Trim(inputValue))
          /\ Get(todos'.items[1], KeyCompleted) = JsBoolean(FALSE)
          /\ \A k \in 1..Len(todos.items) :
                todos'.items[k + 1] = todos.items[k]
          /\ FilteredTodos(todos', "all").items[1] = todos'.items[1]]_vars

\* an add of input with surrounding whitespace (a tab before, a no-break
\* space behind) has run on a non-empty collection
AddedSecondTask ==
    /\ lastOp.op = "add"
    /\ pc = "effect"
    /\ Len(todos.items) = 2
    /\ Get(todos.items[1], KeyText) = JsString(<<"a", " ", "b">>)

\* C7: toggle(id) flips the completed flag of the task with that id and
\* changes nothing else: length, order, ids, texts, createdAt and the other
\* tasks' flags stay; with no task of that id the collection is unchanged.
ToggleChangesOnlyFlag ==
    [][lastOp'.op = "toggle" =>
          /\ Len(todos'.items) = Len(todos.items)
          /\ \A k \in 1..Len(todos.items) :
                /\ IdOf(todos'.items[k]) = IdOf(todos.items[k])
                /\ Get(todos'.items[k], KeyText) = Get(todos.items[k], KeyText)
                /\ Get(todos'.items[k], KeyCreatedAt)
                       = Get(todos.items[k], KeyCreatedAt)
                /\ Len(todos'.items[k].members) = 4
                /\ IsCompleted(todos'.items[k]) =
                       IF IdOf(todos.items[k]) = lastOp'.arg
                       THEN IsPending(todos.items[k])
                       ELSE IsCompleted(todos.items[k])
          /\ (lastOp'.arg \notin IdsOf(todos) => todos' = todos)]_vars

\* a toggle has completed one of two tasks and left the other pending
ToggledOneOfTwo ==
    /\ lastOp.op = "toggle"
    /\ Len(todos.items) = 2
    /\ \E j, k \in 1..2 :
          /\ IdOf(todos.items[j]) = lastOp.arg
          /\ IsCompleted(todos.items[j])
          /\ IsPending(todos.items[k])

\* C8: clearCompleted leaves exactly the pending tasks, in order and
\* unchanged, and a second clearCompleted changes nothing more.
ClearKeepsPending ==
    [][lastOp'.op = "clear" =>
          /\ todos'.items = SelectSeq(todos.items, IsPending)
          /\ ClearUpdater(todos').arr = todos']_vars

\* a clear has removed a task and kept another: the stored value still
\* holds the longer collection
ClearedSome ==
    /\ lastOp.op = "clear"
    /\ pc = "effect"
    /\ Len(todos.items) = 1
    /\ Len(storage.value) > Len(JSONstringify(todos))

\* C9: deleteOne(id) leaves the collection without the task of that id, the
\* others unchanged and in order; with no task of that id it is unchanged.
DeleteRemovesOnlyId ==
    [][lastOp'.op = "delete" =>
          /\ todos'.items =
                 SelectSeq(todos.items, LAMBDA t : IdOf(t) # lastOp'.arg)
          /\ (lastOp'.arg \notin IdsOf(todos) => todos' = todos)]_vars

\* a delete has run with the id of a task deleted before: the collection,
\* still holding a task, is the one the store holds
DeletedAbsentId ==
    /\ lastOp.op = "delete"
    /\ pc = "effect"
    /\ lastOp.arg \notin IdsOf(todos)
    /\ Len(todos.items) >= 1
    /\ storage = SetItem(JSONstringify(todos))

\* C10: the view 'all' is the collection, 'pending' its tasks that are not
\* completed and 'completed' those that are, each in collection order.
ViewsAreProjections ==
    /\ FilteredTodos(todos, "all") = todos
    /\ FilteredTodos(todos, "pending").items
           = SelectSeq(todos.items, IsPending)
    /\ FilteredTodos(todos, "completed").items
           = SelectSeq(todos.items, IsCompleted)

\* the completed view is shown and hides one of two tasks
CompletedViewOfMixed ==
    /\ filter = "completed"
    /\ Len(todos.items) = 2
    /\ Len(filteredTodos.items) = 1

\* C11: toggle is its own inverse: a second toggle of the same id, applied
\* to the collection a toggle has produced, gives back the collection the
\* first one started from, completed flags included.
ToggleTwiceRestores ==
    [][lastOp'.op = "toggle" =>
          ToggleUpdater(todos', lastOp'.arg).arr = todos]_vars

\* a task that had been toggled to completed has been toggled back
ToggledBack ==
    /\ lastOp.op = "toggle"
    /\ pc = "effect"
    /\ \E k \in 1..Len(todos.items) :
          IdOf(todos.items[k]) = lastOp.arg /\ IsPending(todos.items[k])

\* C12: selecting a filter leaves the collection and the stored value
\* unchanged and schedules no write; the filter is 'all' at the first start
\* and after every fresh load, whatever was selected before.
FilterIsEphemeral ==
    /\ filter = "all"
    /\ [][/\ lastOp'.op = "filter" =>
                /\ todos' = todos
                /\ storage' = storage
                /\ pc' = "idle"
          /\ lastOp'.op = "reload" => filter' = "all"]_vars

\* the completed view has been selected over a stored collection of two tasks
FilterSelected ==
    /\ lastOp.op = "filter"
    /\ filter = "completed"
    /\ Len(todos.items) = 2
    /\ storage = SetItem(JSONstringify(todos))

\* the shape interface Todo declares for a task: id and text strings,
\* completed a boolean, createdAt a number
HasTaskShape(v) ==
    /\ v.kind = "object"
    /\ Get(v, KeyId).kind = "string"
    /\ Get(v, KeyText).kind = "string"
    /\ Get(v, KeyCompleted).kind = "boolean"
    /\ Get(v, KeyCreatedAt).kind = "number"

\* whether text deserializes into an array of tasks
Deserializable(text) ==
    LET r == JSONparse(text) IN
    /\ r.ok
    /\ r.val.kind = "array"
    /\ \A k \in 1..Len(r.val.items) : HasTaskShape(r.val.items[k])

\* C13 (as claimed): a start of the application gives the empty collection
\* when no value is stored, and fails with an error whenever the stored
\* value does not deserialize into an array of tasks.  (The empty string is
\* counted with the absent value, and an error of the first render is
\* counted with an error of the load.)
LoadFailsOnMalformed ==
    lastOp.op \in {"mount", "reload"} =>
        IF ~storage.present \/ storage.value = <<>>
        THEN pc = "effect" /\ todos = JsArray(<<>>)
        ELSE IF Deserializable(storage.value)
        THEN pc = "effect"
        ELSE pc = "crashed"

\* C14: every toggle, deleteOne and clearCompleted schedules the persistence
\* effect, also when it leaves the content of the collection as it was, and
\* the step after a scheduled effect is the write of the collection.
MutatorsAlwaysWrite ==
    [][/\ lastOp'.op \in {"toggle", "delete", "clear"} => pc' = "effect"
       /\ pc = "effect" =>
             /\ lastOp'.op = "effect"
             /\ storage' = SetItem(JSONstringify(todos))]_vars

\* a toggle with the id of no task has scheduled a write of the unchanged,
\* non-empty collection
ToggleOfAbsentIdWrites ==
    /\ lastOp.op = "toggle"
    /\ pc = "effect"
    /\ lastOp.arg \notin IdsOf(todos)
    /\ Len(todos.items) >= 1
    /\ storage = SetItem(JSONstringify(todos))

\* C15: with two instances on one store, a save writes the whole collection
\* of the instance that saves, whatever the store held, and nothing but a
\* save changes the stored value: the store holds the last writer's
\* collection.
LastWriterWins ==
    [][/\ (pc = "effect" /\ pc' = "idle") =>
              storage' = SetItem(JSONstringify(todos))
       /\ (other.pc = "effect" /\ other'.pc = "idle") =>
              storage' = SetItem(JSONstringify(other.todos))
       /\ storage' # storage =>
              \/ pc = "effect" /\ pc' = "idle"
              \/ other.pc = "effect" /\ other'.pc = "idle"]_vars

\* the second instance has saved over the value the first had stored: the
\* store holds its task, while the first instance, with nothing left to
\* write, holds a different collection
OtherOverwroteFirst ==
    /\ pc = "idle"
    /\ other.pc = "idle"
    /\ storage = SetItem(JSONstringify(other.todos))
    /\ Len(other.todos.items) >= 1
    /\ todos # other.todos

\* the store holds the serialization of the collection in memory and no
\* write is pending
Persisted == pc = "idle" /\ storage = SetItem(JSONstringify(todos))

\* C16: whenever the stored value is behind the collection in memory, the
\* persistence effect eventually runs and the two agree; and every change
\* of the stored value is a write of the whole collection the instance
\* holds at that moment, never a part or a mixture.
EventuallyPersistedWhole ==
    /\ (~Persisted) ~> Persisted
    /\ [][storage' # storage =>
              /\ storage' = SetItem(JSONstringify(todos))
              /\ todos' = todos]_vars

\* the effect has written the collection left by two adds, a toggle and a
\* removal
PersistedAfterRemoval ==
    /\ Persisted
    /\ lastOp.op = "effect"
    /\ Cardinality(issued) = 2
    /\ Len(todos.items) = 1
    /\ IsCompleted(todos.items[1])

====
